---- MODULE Spec2Model ----
(***************************************************************************)
(* Booking storage of the hotel bot and the operations that read or write  *)
(* it: BookingDAO.check_available_bookings, complete_past_bookings and     *)
(* delete_book (app/dao/dao.py), and the wizard handlers that call the     *)
(* availability check, process_date_end_selected and on_confirmation       *)
(* (app/bot/booking/handlers.py).                                          *)
(*                                                                         *)
(* Dates are day numbers.  A handler is one action; the dialog_data the    *)
(* dialog framework hands to it is an input of the action and the dialog   *)
(* state it leaves behind is recorded in wstate.  Spec is the system of    *)
(* the operations that write bookings; SpecCheck applies                   *)
(* check_available_bookings to a stored table of bookings and records the  *)
(* call in call; SpecDates applies the date step of the wizard to one.     *)
(* SpecRace interleaves the confirmations of two sessions at their awaits; *)
(* SpecJobs runs the scheduled jobs (completion of past bookings, the      *)
(* messages to the admins) on a stored table; SpecPay enters payments and  *)
(* lists the bookings with their totals; SpecDelete applies delete_book;   *)
(* SpecWizard follows the windows of one run of the booking dialog from    *)
(* each of its windows, with the path of the states entered.               *)
(* SpecCalendar follows the date step over the days after the calendars    *)
(* were built; SpecStay checks availability around the completion job on   *)
(* a table with a stay in progress; SpecFail applies the date step and the *)
(* confirmation to queries that may fail; SpecOutput sends a listing to    *)
(* the chat (app/bot/admin/router.py yes_output_bookings).                 *)
(***************************************************************************)
EXTENDS Integers, FiniteSets, Sequences, TLC

\* ---------------------------------------------------------------- bounds
NumRooms == 2
\* the days of a run of Spec, and the dates its calendar offers
MaxDay == 3
\* the dates of the stored bookings and of the requests of SpecCheck
MaxDate == 4
MaxBookings == 2
\* the payments entered in a run of SpecPay
MaxPays == 2
\* the windows entered in a run of the wizard that is followed
MaxPath == 4

RoomIds == 1..NumRooms
\* a room id that references no Room row
UnknownRoomIds == {NumRooms + 1}
\* the guests stored in table "users"
GuestIds == {1}
Days == 1..MaxDay
Dates == 1..MaxDate
\* the cost typed into the wizard (the example of the error message)
Costs == {5000}
BookIds == 1..MaxBookings

\* dialog_data["user"] is None when on_phone_input found no guest
NoUser == 0

\* phone numbers as on_phone_input stores them, and the texts typed for the
\* name and the description of a guest
Phones == { <<"8", "9", "0", "0", "0", "0", "0", "0", "0", "0", "1">>,
            <<"8", "9", "0", "0", "0", "0", "0", "0", "0", "0", "2">> }
Names == {"Anna", "Boris"}
Descriptions == {"regular"}

\* texts typed as the phone number of the guest, character by character
PhoneTexts ==
    { <<"+", "7", "9", "0", "0", "0", "0", "0", "0", "0", "0", "1">>,
      <<"8", " ", "(", "9", "0", "0", ")", " ", "0", "0", "0", "-", "0", "0",
        "-", "0", "2">>,
      <<"9", "0", "0", "1">> }

\* texts typed as the cost of the stay
CostTexts ==
    { <<"5", "0", "0", "0">>, <<" ", "0", "5", "0", "0", "0", " ">>,
      <<"5", "0", " ", "0", "r">>, <<"-", "5", "0", "0", "0">> }

\* the windows of booking_dialog, in the order of dialog.py: next() shows the
\* window after the current one and Back the one before it
Windows ==
    <<"phone_nom", "name", "description_user", "check_user", "check_nom", "room",
      "booking_date_start", "booking_date_end", "cost", "confirmation">>

\* texts typed as the amount of a payment, character by character
PayTexts == { <<"1", "0", "0">>, <<"2", "5", "0">>, <<"-", "5", "0">>,
              <<"a", "b", "c">> }

\* settings.ADMIN_IDS
ADMIN_IDS == <<101, 102>>

\* the wizard sessions (chats) that can have a handler in progress
Sessions == {1, 2}

VARIABLES today, rooms, users, bookings, pays, next_id, wstate, call,
          sessions, path

vars == <<today, rooms, users, bookings, pays, next_id, wstate, call,
          sessions, path>>

db == <<rooms, users, bookings, pays>>

\* ------------------------------------------------------------ data model
\* a row of table "bookings"
Booking(id, user_id, room_id, date_start, date_end, status, cost) ==
    [id |-> id, user_id |-> user_id, room_id |-> room_id,
     date_start |-> date_start, date_end |-> date_end,
     status |-> status, cost |-> cost]

\* a row of table "users"
User(id, username, phone_nom, description) ==
    [id |-> id, username |-> username, phone_nom |-> phone_nom,
     description |-> description]

\* a row of table "pays"
Pay(id, summ, id_booking) == [id |-> id, summ |-> summ, id_booking |-> id_booking]

\* the guests stored before the run
StoredUsers ==
    { User(1, "Anna", <<"8", "9", "0", "0", "0", "0", "0", "0", "0", "0", "1">>,
           "regular") }

\* the values SNewBooking carries to BaseDAO.add
SNewBooking(user_id, room_id, date_start, date_end, status, cost) ==
    [user_id |-> user_id, room_id |-> room_id,
     date_start |-> date_start, date_end |-> date_end,
     status |-> status, cost |-> cost]

\* the keys of dialog_data that on_confirmation reads
DialogDatas ==
    [user : GuestIds \cup {NoUser}, selected_room : RoomIds,
     booking_date_start : Days, booking_date_end : Days, cost : Costs]

\* dialog_data of a session that has no handler in progress
NoDialogData ==
    [user |-> NoUser, selected_room |-> 0, booking_date_start |-> 0,
     booking_date_end |-> 0, cost |-> 0]

\* a session whose dialog shows the confirmation window, no handler running:
\* pos is the dialog state, or where the running handler is suspended
\* ("awaiting") or the exception that ended it; dd and check are the
\* handler's locals, seen is the next booking id when its check was made
Idle ==
    [pos |-> "confirmation", dd |-> NoDialogData, check |-> "NoCall", seen |-> 0]

\* the record kept of the call under observation: a direct call of a DAO
\* method, a run of a scheduled job, or a handler's inputs and outcome
NoCall ==
    [room_id |-> 0, booking_date_start |-> 0, booking_date_end |-> 0,
     failed |-> FALSE, ret |-> "NoCall", queried |-> FALSE]

\* ------------------------------------------------- BookingDAO (dao.py)
\* variants of the WHERE clause: only the candidate's start is compared
overlap_condition_start_only(b, room_id, booking_date_start, booking_date_end) ==
    /\ b.room_id = room_id
    /\ b.date_start < booking_date_start
    /\ b.date_end > booking_date_start

\* ... the comparison with the candidate's start is missing
overlap_condition_no_end(b, room_id, booking_date_start, booking_date_end) ==
    /\ b.room_id = room_id
    /\ b.date_start < booking_date_end

\* ... both comparisons are non-strict
overlap_condition_closed(b, room_id, booking_date_start, booking_date_end) ==
    /\ b.room_id = room_id
    /\ b.date_start <= booking_date_end
    /\ b.date_end >= booking_date_start

\* ... the room filter is missing
overlap_condition_any_room(b, room_id, booking_date_start, booking_date_end) ==
    /\ b.date_start < booking_date_end
    /\ b.date_end > booking_date_start

\* ... one comparison is non-strict
overlap_condition_half_closed(b, room_id, booking_date_start, booking_date_end) ==
    /\ b.room_id = room_id
    /\ b.date_start <= booking_date_end
    /\ b.date_end > booking_date_start

\* variant: only rows with status 'booked' are counted
overlap_condition_booked_only(b, room_id, booking_date_start, booking_date_end) ==
    /\ b.room_id = room_id
    /\ b.status = "booked"
    /\ b.date_start < booking_date_end
    /\ b.date_end > booking_date_start

\* the WHERE clause of the availability query
overlap_condition(b, room_id, booking_date_start, booking_date_end) ==
    /\ b.room_id = room_id
    /\ b.date_start < booking_date_end
    /\ b.date_end > booking_date_start

\* variants of the check: an empty range passes the range test
check_available_bookings_empty_range(bk, room_id, booking_date_start, booking_date_end, dbFails) ==
    IF booking_date_start > booking_date_end
    THEN [ret |-> "None", queried |-> FALSE, bookings |-> bk]
    ELSE IF dbFails
    THEN [ret |-> "None", queried |-> TRUE, bookings |-> bk]
    ELSE [ret |-> IF \E b \in bk :
                        b.room_id = room_id /\ b.date_start < booking_date_end
                                            /\ b.date_end > booking_date_start
                  THEN "False" ELSE "True",
          queried |-> TRUE, bookings |-> bk]

\* ... there is no range test
check_available_bookings_no_range_test(bk, room_id, booking_date_start, booking_date_end, dbFails) ==
    IF dbFails
    THEN [ret |-> "None", queried |-> TRUE, bookings |-> bk]
    ELSE [ret |-> IF \E b \in bk :
                        b.room_id = room_id /\ b.date_start < booking_date_end
                                            /\ b.date_end > booking_date_start
                  THEN "False" ELSE "True",
          queried |-> TRUE, bookings |-> bk]

\* ... the statement executed is a DELETE of the matching rows
check_available_bookings_deleting(bk, room_id, booking_date_start, booking_date_end, dbFails) ==
    IF booking_date_start >= booking_date_end
    THEN [ret |-> "None", queried |-> FALSE, bookings |-> bk]
    ELSE IF dbFails
    THEN [ret |-> "None", queried |-> TRUE, bookings |-> bk]
    ELSE [ret |-> IF \E b \in bk :
                        b.room_id = room_id /\ b.date_start < booking_date_end
                                            /\ b.date_end > booking_date_start
                  THEN "False" ELSE "True",
          queried |-> TRUE,
          bookings |-> { b \in bk :
                          ~(b.room_id = room_id /\ b.date_start < booking_date_end
                                                /\ b.date_end > booking_date_start) }]

\* variant of the check: a failed query counts as "no conflicting row"
check_available_bookings_fail_open(bk, room_id, booking_date_start, booking_date_end, dbFails) ==
    IF booking_date_start >= booking_date_end
    THEN [ret |-> "None", queried |-> FALSE, bookings |-> bk]
    ELSE IF dbFails
    THEN [ret |-> "True", queried |-> TRUE, bookings |-> bk]
    ELSE [ret |-> IF \E b \in bk : /\ b.room_id = room_id
                                    /\ b.date_start < booking_date_end
                                    /\ b.date_end > booking_date_start
                  THEN "False" ELSE "True",
          queried |-> TRUE, bookings |-> bk]

\* the value returned ("True" / "False", or "None" after a logged error),
\* whether the query was executed, and the bookings table after the call
check_available_bookings(bk, room_id, booking_date_start, booking_date_end, dbFails) ==
    IF booking_date_start >= booking_date_end
    THEN [ret |-> "None", queried |-> FALSE, bookings |-> bk]
    ELSE IF dbFails
    THEN [ret |-> "None", queried |-> TRUE, bookings |-> bk]
    ELSE [ret |-> IF \E b \in bk :
                        overlap_condition(b, room_id, booking_date_start,
                                          booking_date_end)
                  THEN "False" ELSE "True",
          queried |-> TRUE, bookings |-> bk]

\* variant of the test of the returned value: "is not None"
Truthy_not_none(ret) == ret # "None"

\* variant of the test of the returned value: "is not False"
Truthy_not_false(ret) == ret # "False"

\* Python truthiness of the returned value: None and False are falsy
Truthy(ret) == ret = "True"

\* failed: the query was executed and raised SQLAlchemyError
CallRecord(room_id, s, e, dbFails, res) ==
    [room_id |-> room_id, booking_date_start |-> s, booking_date_end |-> e,
     failed |-> (res.queried /\ dbFails), ret |-> res.ret, queried |-> res.queried]

\* variants of the UPDATE: the value written is not a status of the machine
complete_past_bookings_closed(bk, now) ==
    { IF b.date_start < now /\ b.status = "booked"
      THEN [b EXCEPT !.status = "closed"] ELSE b : b \in bk }

\* ... the cutoff is compared with date_end
complete_past_bookings_by_date_end(bk, now) ==
    { IF b.date_end < now /\ b.status = "booked"
      THEN [b EXCEPT !.status = "completed"] ELSE b : b \in bk }

\* UPDATE bookings SET status='completed' WHERE date_start < today AND status='booked'
complete_past_bookings(bk, now) ==
    { IF b.date_start < now /\ b.status = "booked"
      THEN [b EXCEPT !.status = "completed"] ELSE b : b \in bk }

\* int(text) of Python on the texts above: an optional sign and decimal digits
DigitValue(c) ==
    CASE c = "0" -> 0 [] c = "1" -> 1 [] c = "2" -> 2 [] c = "3" -> 3
      [] c = "4" -> 4 [] c = "5" -> 5 [] c = "6" -> 6 [] c = "7" -> 7
      [] c = "8" -> 8 [] c = "9" -> 9

IsDigits(t) ==
    /\ Len(t) > 0
    /\ \A i \in 1..Len(t) :
          t[i] \in {"0", "1", "2", "3", "4", "5", "6", "7", "8", "9"}

RECURSIVE DigitsValue(_)
DigitsValue(t) ==
    IF Len(t) = 0 THEN 0
    ELSE 10 * DigitsValue(SubSeq(t, 1, Len(t) - 1)) + DigitValue(t[Len(t)])

\* str.strip(): the text without its leading and trailing whitespace
strip(t) ==
    LET kept == { i \in 1..Len(t) : t[i] \notin {" ", "\t", "\n"} }
    IN  IF kept = {} THEN <<>>
        ELSE SubSeq(t, CHOOSE i \in kept : \A j \in kept : i <= j,
                       CHOOSE i \in kept : \A j \in kept : i >= j)

\* whether int(text) returns, and the value when it does (else ValueError)
IntLiteral(t) ==
    \/ IsDigits(t)
    \/ Len(t) > 1 /\ t[1] \in {"-", "+"} /\ IsDigits(Tail(t))

int(t) ==
    IF IsDigits(t) THEN DigitsValue(t)
    ELSE IF t[1] = "-" THEN 0 - DigitsValue(Tail(t))
    ELSE DigitsValue(Tail(t))

\* extract('year', date): the days are numbered from the first day of a year
\* of two days
YearOf(d) == (d + 1) \div 2

\* func.sum(Pay.summ) over the rows of one group: NULL when the group has no
\* payment row
RECURSIVE SumSumm(_)
SumSumm(ps) ==
    IF ps = {} THEN 0
    ELSE LET p == CHOOSE q \in ps : TRUE
         IN  p.summ + SumSumm(ps \ {p})

func_sum(ps) == [null |-> ps = {}, value |-> SumSumm(ps)]

\* variant of the join: the payments are not matched to the booking
total_payment_unmatched(b, ps) ==
    LET total_payment == func_sum(ps)
    IN  IF total_payment.null THEN 0 ELSE total_payment.value

\* the total of one row of the listing: the LEFT JOIN of booking b with its
\* payments, grouped by the booking id, and int(total) or 0 for NULL
total_payment(b, ps) ==
    LET total_payment == func_sum({ p \in ps : p.id_booking = b.id })
    IN  IF total_payment.null THEN 0 ELSE total_payment.value

\* select(Booking, sum).join(user).join(room).outerjoin(pays).filter(..)
\* .group_by(Booking.id): the (booking, total) pairs of the bookings that
\* pass the filter (the set filtered) and have their guest and their room
bookings_with_details(filtered, us, rs, ps) ==
    { <<b, total_payment(b, ps)>> :
        b \in { x \in filtered : /\ \E u \in us : u.id = x.user_id
                                  /\ x.room_id \in rs } }

\* variant of the check-in listing: the filter compares date_end
get_bookings_with_details_date_start_by_end(bk, us, rs, ps, now, dbFails) ==
    IF dbFails THEN {}
    ELSE bookings_with_details({ b \in bk : b.date_end = now }, us, rs, ps)

\* the four listings; a failed query is logged and gives the empty list
get_bookings_with_details_date_start(bk, us, rs, ps, now, dbFails) ==
    IF dbFails THEN {}
    ELSE bookings_with_details({ b \in bk : b.date_start = now }, us, rs, ps)

get_bookings_with_details_date_end(bk, us, rs, ps, now, dbFails) ==
    IF dbFails THEN {}
    ELSE bookings_with_details({ b \in bk : b.date_end = now }, us, rs, ps)

get_bookings_with_details_year(bk, us, rs, ps, room_id, year, dbFails) ==
    IF dbFails THEN {}
    ELSE bookings_with_details(
             { b \in bk : b.room_id = room_id /\ YearOf(b.date_start) = year },
             us, rs, ps)

get_bookings_with_details(bk, us, rs, ps, room_id, now, dbFails) ==
    IF dbFails THEN {}
    ELSE bookings_with_details(
             { b \in bk : b.room_id = room_id /\ b.date_end >= now },
             us, rs, ps)

\* bot.send_message(admin_id, text): what the text is about
Message(admin_id, action, book_id, total) ==
    [admin_id |-> admin_id, action |-> action, book_id |-> book_id,
     total_payment |-> total]

\* for booking, total_payment in rows: for admin_id in ADMIN_IDS: send
RECURSIVE SendEach(_, _)
SendEach(rows, action) ==
    IF rows = {} THEN <<>>
    ELSE LET r == CHOOSE x \in rows : \A y \in rows : x[1].id <= y[1].id
         IN  [i \in 1..Len(ADMIN_IDS) |->
                 Message(ADMIN_IDS[i], action, r[1].id, r[2])]
             \o SendEach(rows \ {r}, action)

\* the single message sent to every admin when the list is empty
SendNone(action) ==
    [i \in 1..Len(ADMIN_IDS) |-> Message(ADMIN_IDS[i], action, 0, 0)]

\* variant of the DELETE: the filter on the id is missing
delete_book_unfiltered(bk, book_id) == {}

\* DELETE FROM bookings WHERE id = book_id
delete_book(bk, book_id) == { b \in bk : b.id # book_id }

\* BaseDAO.add: insert one row built from the values, with the next id
add(bk, values, id) ==
    bk \cup {Booking(id, values.user_id, values.room_id, values.date_start,
                     values.date_end, values.status, values.cost)}

\* ----------------------------------------- the wizard (handlers.py)
\* text.replace(c, '')
RemoveChar(t, c) == SelectSeq(t, LAMBDA x : x # c)

\* text.replace('+7', '8')
RECURSIVE ReplacePlus7(_)
ReplacePlus7(t) ==
    IF Len(t) < 2 THEN t
    ELSE IF t[1] = "+" /\ t[2] = "7"
         THEN <<"8">> \o ReplacePlus7(SubSeq(t, 3, Len(t)))
         ELSE <<t[1]>> \o ReplacePlus7(Tail(t))

\* on_phone_input: the replacements, in their order
cleaned_phone(text) ==
    RemoveChar(
        ReplacePlus7(RemoveChar(RemoveChar(RemoveChar(text, " "), "("), ")")),
        "-")

\* 11 digits, the first an 8
WellFormedPhone(c) == IsDigits(c) /\ Len(c) = 11 /\ c[1] = "8"

\* schemas.py SNewUser: phone_nom, name and description are required fields;
\* kwargs is the record of the keyword arguments of a construction, which
\* raises ValidationError when one of them is absent
SNewUserFields == {"phone_nom", "name", "description"}

SNewUserValid(kwargs) == SNewUserFields \subseteq DOMAIN kwargs

\* BaseDAO.find_one_or_none with a filter on phone_nom: the row or None
find_one_or_none(us, filters) ==
    IF \E u \in us : u.phone_nom = filters.phone_nom
    THEN (CHOOSE u \in us : u.phone_nom = filters.phone_nom).id
    ELSE NoUser

\* BaseDAO.update: the rows that match the filter get the values
update(us, filters, values) ==
    { IF u.phone_nom = filters.phone_nom
      THEN [u EXCEPT !.username = values.name, !.description = values.description]
      ELSE u : u \in us }

\* BaseDAO.add of a guest
add_user(us, values) ==
    us \cup {User(Cardinality(us) + 1, values.name, values.phone_nom,
                  values.description)}

\* the place of a window in the dialog
Index(state) == CHOOSE i \in DOMAIN Windows : Windows[i] = state

\* dialog_manager.next() and the Back button
next_state(state) == Windows[Index(state) + 1]

back_state(state) == Windows[Index(state) - 1]

\* the keys of dialog_data each handler writes (getters.py line 60 writes
\* user_id in the getter of the confirmation window)
Writes(by) ==
    CASE by = "on_phone_input" -> {"phone_nom", "user"}
      [] by = "on_name_input" -> {"name"}
      [] by = "on_description_user_input" -> {"description_user"}
      [] by = "on_room_selected" -> {"selected_room"}
      [] by = "process_date_start_selected" -> {"booking_date_start"}
      [] by = "process_date_end_selected" -> {"booking_date_end"}
      [] by = "on_cost_input" -> {"cost"}
      [] by = "get_confirmed_data_booking" -> {"user_id"}
      [] OTHER -> {}

\* every key some handler or getter of the wizard writes
WritableKeys ==
    UNION { Writes(by) :
              by \in {"on_phone_input", "on_name_input",
                       "on_description_user_input", "on_room_selected",
                       "process_date_start_selected",
                       "process_date_end_selected", "on_cost_input",
                       "get_confirmed_data_booking"} }

\* the keys of dialog_data the getter of a window reads: getters.py
\* get_confirmed_data_newuser, get_confirmed_data_user,
\* get_confirmed_data_booking
GetterReads(state) ==
    CASE state = "check_user" -> {"phone_nom", "name", "description_user"}
      [] state = "check_nom" -> {"phone_nom"}
      [] state = "confirmation" ->
            {"phone_nom", "selected_room_id", "booking_date_start",
             "booking_date_end", "cost"}
      [] OTHER -> {}

\* the keys of dialog_data the handlers of a window read: handlers.py
\* on_confirmation_user_yes, process_date_end_selected, on_confirmation
HandlerReads(state) ==
    CASE state = "check_user" -> {"phone_nom", "name", "description_user"}
      [] state = "booking_date_end" -> {"booking_date_start", "selected_room"}
      [] state = "confirmation" ->
            {"user", "selected_room", "booking_date_start", "booking_date_end",
             "cost"}
      [] OTHER -> {}

\* path is <<>> when no run of the wizard is followed; in a run that is
\* followed a handler runs when its window is shown
Shown(state) ==
    IF path = <<>> THEN TRUE ELSE wstate = state /\ Len(path) < MaxPath

\* the path after the dialog entered a window, by the handler named
Entered(state, by) ==
    IF path = <<>> THEN path ELSE Append(path, [state |-> state, by |-> by])

\* ------------------------------------------------------------------ Init
Init ==
    /\ today = 1
    /\ rooms = RoomIds
    /\ users = StoredUsers
    /\ bookings = {}
    /\ pays = {}
    /\ next_id = 1
    /\ wstate = "none"
    /\ call = NoCall
    /\ sessions = [s \in Sessions |-> Idle]
    /\ path = <<>>

\* --------------------------------------------------------------- actions
\* a direct call of BookingDAO.check_available_bookings, recorded in call;
\* one call is followed per behaviour
CheckAvailable ==
    /\ call = NoCall
    /\ \E room_id \in RoomIds \cup UnknownRoomIds, s \in Dates, e \in Dates :
       \E dbFails \in (IF s < e THEN BOOLEAN ELSE {FALSE}) :
        LET res == check_available_bookings(bookings, room_id, s, e, dbFails)
        IN  /\ bookings' = res.bookings
            /\ call' = CallRecord(room_id, s, e, dbFails, res)
            /\ UNCHANGED <<today, rooms, users, pays, next_id, wstate, sessions, path>>

\* handlers.py on_phone_input: a text that is not a phone number is answered
\* with a message; for a phone number dialog_data["phone_nom"] is set and the
\* lookup builds SNewUser with phone_nom alone, which raises ValidationError
\* before the lookup and the switch_to.  Either way the window stays.  The
\* text, whether dialog_data was written and the exception are recorded
on_phone_input ==
    /\ wstate = "phone_nom" /\ path # <<>> /\ Len(path) < MaxPath
    /\ \E text \in PhoneTexts :
        LET cleaned == cleaned_phone(text)
            kwargs == [phone_nom |-> cleaned]
            raised == IF WellFormedPhone(cleaned) /\ ~SNewUserValid(kwargs)
                      THEN "ValidationError" ELSE "none"
        IN  /\ call' = [op |-> "on_phone_input", text |-> text,
                        phone_nom_set |-> WellFormedPhone(cleaned),
                        raised |-> raised]
            /\ IF ~WellFormedPhone(cleaned) \/ raised # "none"
               THEN UNCHANGED <<wstate, path>>
               ELSE /\ wstate' = IF find_one_or_none(users, kwargs) # NoUser
                                 THEN "check_nom" ELSE "name"
                    /\ path' = Entered(wstate', "on_phone_input")
    /\ UNCHANGED <<today, rooms, users, bookings, pays, next_id, sessions>>

\* handlers.py on_name_input
on_name_input ==
    /\ wstate = "name" /\ path # <<>> /\ Len(path) < MaxPath
    /\ wstate' = next_state("name")
    /\ path' = Entered(wstate', "on_name_input")
    /\ UNCHANGED <<today, rooms, users, bookings, pays, next_id, call, sessions>>

\* variant of on_description_user_input: switch_to(BookingState.name)
on_description_user_input_to_name ==
    /\ wstate = "description_user" /\ path # <<>> /\ Len(path) < MaxPath
    /\ wstate' = "name"
    /\ path' = Entered(wstate', "on_description_user_input")
    /\ UNCHANGED <<today, rooms, users, bookings, pays, next_id, call, sessions>>

\* handlers.py on_description_user_input
on_description_user_input ==
    /\ wstate = "description_user" /\ path # <<>> /\ Len(path) < MaxPath
    /\ wstate' = next_state("description_user")
    /\ path' = Entered(wstate', "on_description_user_input")
    /\ UNCHANGED <<today, rooms, users, bookings, pays, next_id, call, sessions>>

\* handlers.py on_confirmation_user_yes, with the phone, the name and the
\* description of dialog_data; its inputs and the exception that ended it are
\* recorded in call.  The lookup builds SNewUser with phone_nom alone and
\* raises ValidationError; the update, the add and the next() follow it
on_confirmation_user_yes ==
    /\ wstate = "check_user" /\ path # <<>> /\ Len(path) < MaxPath
    /\ \E phone_nomber \in Phones, user_name \in Names,
          description_user \in Descriptions :
        LET kwargs == [phone_nom |-> phone_nomber]
            values == [name |-> user_name, description |-> description_user]
            add_model == [phone_nom |-> phone_nomber, name |-> user_name,
                          description |-> description_user]
            raised == IF ~SNewUserValid(kwargs) THEN "ValidationError"
                      ELSE IF find_one_or_none(users, kwargs) # NoUser
                              /\ ~SNewUserValid(values)
                      THEN "ValidationError" ELSE "none"
        IN  /\ call' = [op |-> "on_confirmation_user_yes",
                        phone_nom |-> phone_nomber, name |-> user_name,
                        description_user |-> description_user, raised |-> raised]
            /\ IF raised # "none"
               THEN UNCHANGED <<users, wstate, path>>
               ELSE /\ users' = IF find_one_or_none(users, kwargs) # NoUser
                                THEN update(users, kwargs, values)
                                ELSE add_user(users, add_model)
                    /\ wstate' = next_state("check_user")
                    /\ path' = Entered(wstate', "on_confirmation_user_yes")
    /\ UNCHANGED <<today, rooms, bookings, pays, next_id, sessions>>

\* handlers.py on_confirmation_user_no
on_confirmation_user_no ==
    /\ wstate = "check_user" /\ path # <<>> /\ Len(path) < MaxPath
    /\ wstate' = "phone_nom"
    /\ path' = Entered(wstate', "on_confirmation_user_no")
    /\ UNCHANGED <<today, rooms, users, bookings, pays, next_id, call, sessions>>

\* handlers.py on_confirmation_chek_user_no
on_confirmation_chek_user_no ==
    /\ wstate = "check_nom" /\ path # <<>> /\ Len(path) < MaxPath
    /\ wstate' = "name"
    /\ path' = Entered(wstate', "on_confirmation_chek_user_no")
    /\ UNCHANGED <<today, rooms, users, bookings, pays, next_id, call, sessions>>

\* handlers.py on_confirmation_check_user_yes
on_confirmation_check_user_yes ==
    /\ wstate = "check_nom" /\ path # <<>> /\ Len(path) < MaxPath
    /\ wstate' = "room"
    /\ path' = Entered(wstate', "on_confirmation_check_user_yes")
    /\ UNCHANGED <<today, rooms, users, bookings, pays, next_id, call, sessions>>

\* handlers.py on_room_selected, for the room of the button pressed
on_room_selected ==
    /\ wstate = "room" /\ path # <<>> /\ Len(path) < MaxPath
    /\ \E item_id \in RoomIds :
        /\ wstate' = next_state("room")
        /\ path' = Entered(wstate', "on_room_selected")
    /\ UNCHANGED <<today, rooms, users, bookings, pays, next_id, call, sessions>>

\* windows.py CalendarConfig(min_date=date.today()): the argument is
\* evaluated once, when get_start_date_window() and get_end_date_window()
\* build the windows at import, on the day the process starts (day 1)
min_date == 1

\* the dates the calendars let the admin press
CalendarDates == { d \in Days : d >= min_date }

\* handlers.py process_date_start_selected, for the date pressed; the date
\* written to dialog_data and the day it was pressed are recorded
process_date_start_selected ==
    /\ wstate = "booking_date_start" /\ path # <<>> /\ Len(path) < MaxPath
    /\ \E selected_date \in CalendarDates :
        /\ call' = [op |-> "process_date_start_selected",
                    selected_date |-> selected_date, pressed_on |-> today]
        /\ wstate' = next_state("booking_date_start")
        /\ path' = Entered(wstate', "process_date_start_selected")
    /\ UNCHANGED <<today, rooms, users, bookings, pays, next_id, sessions>>

\* variant of on_cost_input: the text is not tested
on_cost_input_unchecked ==
    /\ wstate = "cost" /\ path # <<>> /\ Len(path) < MaxPath
    /\ \E text \in CostTexts :
        /\ call' = [op |-> "on_cost_input", text |-> text, cost_set |-> TRUE,
                    cost |-> DigitsValue(SelectSeq(text, LAMBDA c : IsDigits(<<c>>)))]
        /\ wstate' = next_state("cost")
        /\ path' = Entered(wstate', "on_cost_input")
    /\ UNCHANGED <<today, rooms, users, bookings, pays, next_id, sessions>>

\* handlers.py on_cost_input: a text that is digits once stripped is the
\* cost, any other text is answered with the error message.  The text and
\* what was written to dialog_data["cost"] are recorded
on_cost_input ==
    /\ wstate = "cost" /\ path # <<>> /\ Len(path) < MaxPath
    /\ \E text \in CostTexts :
        LET user_input == strip(text)
        IN  IF IsDigits(user_input)
            THEN /\ call' = [op |-> "on_cost_input", text |-> text,
                             cost_set |-> TRUE, cost |-> int(user_input)]
                 /\ wstate' = next_state("cost")
                 /\ path' = Entered(wstate', "on_cost_input")
            ELSE /\ call' = [op |-> "on_cost_input", text |-> text,
                             cost_set |-> FALSE, cost |-> 0]
                 /\ UNCHANGED <<wstate, path>>
    /\ UNCHANGED <<today, rooms, users, bookings, pays, next_id, sessions>>

\* windows.py: the Back button, of every window but the first
Back ==
    /\ path # <<>> /\ Len(path) < MaxPath
    /\ \E i \in 2..Len(Windows) : wstate = Windows[i]
    /\ wstate' = back_state(wstate)
    /\ path' = Entered(wstate', "Back")
    /\ UNCHANGED <<today, rooms, users, bookings, pays, next_id, call, sessions>>

\* windows.py: the Cancel button, of every window: cancel_logic answers and
\* the dialog is closed
Cancel ==
    /\ path # <<>>
    /\ \E i \in DOMAIN Windows : wstate = Windows[i]
    /\ wstate' = "none"
    /\ UNCHANGED <<today, rooms, users, bookings, pays, next_id, call, sessions,
                   path>>

\* handlers.py process_date_end_selected
process_date_end_selected ==
    /\ wstate = "booking_date_end"
    /\ Shown("booking_date_end")
    /\ \E selected_room_id \in RoomIds, selected_date_start \in Dates,
         selected_date \in Dates :
       \E dbFails \in (IF selected_date_start < selected_date
                        THEN BOOLEAN ELSE {FALSE}) :
        LET
            res == check_available_bookings(bookings, selected_room_id,
                                            selected_date_start, selected_date,
                                            dbFails)
        IN  /\ bookings' = res.bookings
            /\ wstate' = IF Truthy(res.ret) THEN next_state("booking_date_end")
                         ELSE "booking_date_start"
            /\ path' = Entered(wstate', IF wstate' = "booking_date_start"
                                        THEN "process_date_end_selected refused"
                                        ELSE "process_date_end_selected")
            /\ call' = IF path = <<>>
                       THEN CallRecord(selected_room_id, selected_date_start,
                                       selected_date, dbFails, res)
                       ELSE call
            /\ UNCHANGED <<today, rooms, users, pays, next_id, sessions>>

\* handlers.py on_confirmation: the confirmation of a wizard run whose
\* dialog_data is dd.  After BookingDAO.add the handler evaluates
\* main_user_kb(user_id) with user_id unbound, so it ends with a NameError
\* before dialog_manager.done(); whether the inserted row is committed is
\* decided by the session middleware (committed).
on_confirmation ==
    /\ Shown("confirmation")
    /\ \E dd \in DialogDatas :
      \E dbFails \in (IF dd.booking_date_start < dd.booking_date_end
                       THEN BOOLEAN ELSE {FALSE}) :
        LET user == dd.user
            room == dd.selected_room
            date_start == dd.booking_date_start
            date_end == dd.booking_date_end
            cost == dd.cost
            res == check_available_bookings(bookings, room, date_start,
                                            date_end, dbFails)
            add_model == SNewBooking(user, room, date_start, date_end,
                                     "booked", cost)
        IN  /\ IF Truthy(res.ret)
               THEN IF user = NoUser
                    THEN \* user.id on None: AttributeError, nothing added
                         /\ bookings' = res.bookings
                         /\ next_id' = next_id
                         /\ wstate' = "confirmation"
                         /\ path' = path
                    ELSE /\ next_id <= MaxBookings
                         /\ \E committed \in BOOLEAN :
                              IF committed
                              THEN /\ bookings' = add(res.bookings, add_model, next_id)
                                   /\ next_id' = next_id + 1
                              ELSE /\ bookings' = res.bookings
                                   /\ next_id' = next_id
                         /\ wstate' = "confirmation"
                         /\ path' = path
               ELSE /\ bookings' = res.bookings
                    /\ next_id' = next_id
                    /\ wstate' = "room"
                    /\ path' = Entered("room", "on_confirmation refused")
            /\ UNCHANGED <<today, rooms, users, pays, call, sessions>>

\* handlers.py on_confirmation, interleaved with other handlers.  Session s
\* presses the button: the handler reads dialog_data, makes the availability
\* check and is suspended at an await (the query of line 134 or the
\* callback.answer of line 138 or 148) ...
on_confirmation_check(s) ==
    /\ sessions[s].pos = "confirmation"
    /\ \E dd \in DialogDatas :
         \E dbFails \in (IF dd.booking_date_start < dd.booking_date_end
                          THEN BOOLEAN ELSE {FALSE}) :
           LET res == check_available_bookings(bookings, dd.selected_room,
                                               dd.booking_date_start,
                                               dd.booking_date_end, dbFails)
           IN  /\ bookings' = res.bookings
               /\ sessions' = [sessions EXCEPT ![s] =
                                  [pos |-> "awaiting", dd |-> dd,
                                   check |-> res.ret, seen |-> next_id]]
               /\ UNCHANGED <<today, rooms, users, pays, next_id, wstate, call, path>>

\* ... and is resumed: the branch on the value of check.  The session ends
\* in BookingState.room, or where the handler raised
on_confirmation_add(s) ==
    /\ sessions[s].pos = "awaiting"
    /\ LET user == sessions[s].dd.user
           room == sessions[s].dd.selected_room
           date_start == sessions[s].dd.booking_date_start
           date_end == sessions[s].dd.booking_date_end
           cost == sessions[s].dd.cost
           check == sessions[s].check
           add_model == SNewBooking(user, room, date_start, date_end,
                                    "booked", cost)
       IN  IF Truthy(check)
           THEN IF user = NoUser
                THEN /\ bookings' = bookings
                     /\ next_id' = next_id
                     /\ sessions' = [sessions EXCEPT ![s].pos = "AttributeError"]
                ELSE /\ next_id <= MaxBookings
                     /\ \E committed \in BOOLEAN :
                          IF committed
                          THEN /\ bookings' = add(bookings, add_model, next_id)
                               /\ next_id' = next_id + 1
                          ELSE /\ bookings' = bookings
                               /\ next_id' = next_id
                     /\ sessions' = [sessions EXCEPT ![s].pos = "NameError"]
           ELSE /\ bookings' = bookings
                /\ next_id' = next_id
                /\ sessions' = [sessions EXCEPT ![s].pos = "room"]
    /\ UNCHANGED <<today, rooms, users, pays, wstate, call, path>>

\* api/router.py disable_booking: the daily run of complete_past_bookings
disable_booking ==
    \E dbFails \in BOOLEAN :
        /\ bookings' = IF dbFails THEN bookings
                       ELSE complete_past_bookings(bookings, today)
        /\ UNCHANGED <<today, rooms, users, pays, next_id, wstate, call, sessions, path>>

\* admin/router.py delete_booking: delete_book for the id in the callback data
delete_booking ==
    \E book_id \in BookIds, dbFails \in BOOLEAN :
        /\ bookings' = IF dbFails THEN bookings ELSE delete_book(bookings, book_id)
        /\ UNCHANGED <<today, rooms, users, pays, next_id, wstate, call, sessions, path>>

\* a run of BookingDAO.complete_past_bookings, recorded in call with the
\* table it found
RunCompletePastBookings ==
    /\ call = NoCall
    /\ \E dbFails \in BOOLEAN :
        /\ bookings' = IF dbFails THEN bookings
                       ELSE complete_past_bookings(bookings, today)
        /\ call' = [op |-> "complete_past_bookings", now |-> today,
                    before |-> bookings, failed |-> dbFails]
        /\ UNCHANGED <<today, rooms, users, pays, next_id, wstate, sessions, path>>

\* variant of the sends: bot.send_message is called outside a try, the first
\* exception ends the job
try_send_uncaught(msgs, unreachable) ==
    LET bad == { i \in DOMAIN msgs : msgs[i].admin_id \in unreachable }
        stop == IF bad = {} THEN Len(msgs)
                ELSE CHOOSE i \in bad : \A j \in bad : i <= j
    IN  [attempted |-> SubSeq(msgs, 1, stop),
         delivered |-> SubSeq(msgs, 1, IF bad = {} THEN stop ELSE stop - 1),
         raised |-> bad # {}]

\* try: await bot.send_message(..) except Exception: logger.error(..), for
\* the messages in order; the send raises for the admins in unreachable
try_send(msgs, unreachable) ==
    [attempted |-> msgs,
     delivered |-> SelectSeq(msgs, LAMBDA m : m.admin_id \notin unreachable),
     raised |-> FALSE]

\* api/router.py send_admin_msg: the messages it attempts to send, in order,
\* recorded in call, with the admins whose sends raised, the messages that
\* were delivered and whether the job raised
send_admin_msg ==
    /\ call = NoCall
    /\ \E failsIn \in BOOLEAN, failsOut \in BOOLEAN,
          unreachable \in {{}, {ADMIN_IDS[1]}} :
        LET check_in == get_bookings_with_details_date_start(
                            bookings, users, rooms, pays, today, failsIn)
            check_out == get_bookings_with_details_date_end(
                            bookings, users, rooms, pays, today, failsOut)
            msgs == (IF check_in # {} THEN SendEach(check_in, "check_in")
                     ELSE SendNone("no_check_in"))
                    \o (IF check_out # {} THEN SendEach(check_out, "check_out")
                        ELSE SendNone("no_check_out"))
            out == try_send(msgs, unreachable)
        IN  /\ call' = [op |-> "send_admin_msg", now |-> today,
                        sent |-> out.attempted,
                        failed |-> (failsIn \/ failsOut),
                        unreachable |-> unreachable,
                        delivered |-> out.delivered, raised |-> out.raised]
            /\ UNCHANGED <<today, rooms, users, bookings, pays, next_id, wstate,
                           sessions, path>>

\* admin/router.py input_pay_booking: the text typed is the amount of a
\* payment for the booking whose button was pressed (book_id of the FSM data)
input_pay_booking ==
    /\ call = NoCall
    /\ Cardinality(pays) < MaxPays
    /\ \E text \in PayTexts, book_id \in BookIds, dbFails \in BOOLEAN :
        /\ pays' = IF ~IntLiteral(text) \/ dbFails
                   THEN pays   \* ValueError of int(), or the INSERT failed
                   ELSE pays \cup {Pay(Cardinality(pays) + 1, int(text), book_id)}
        /\ UNCHANGED <<today, rooms, users, bookings, next_id, wstate, call,
                       sessions, path>>

\* the rows of a listing as the list the query returns, by booking id
RECURSIVE RowList(_)
RowList(rows) ==
    IF rows = {} THEN <<>>
    ELSE LET r == CHOOSE x \in rows : \A y \in rows : x[1].id <= y[1].id
         IN  <<r>> \o RowList(rows \ {r})

\* admin/router.py yes_output_bookings, the loop of lines 61-90 from the
\* i-th row on: home_page is assigned only in the iteration of the row whose
\* id is last_booking_id, and is read in every iteration; bound tells whether
\* it has been assigned.  The messages sent and the exception that ended the
\* loop
RECURSIVE output_loop(_, _, _)
output_loop(all_bookings, i, bound) ==
    IF i > Len(all_bookings) THEN [sent |-> <<>>, raised |-> "none"]
    ELSE LET last_booking_id == all_bookings[Len(all_bookings)][1].id
             booking_number == all_bookings[i][1].id
             home_page == bound \/ last_booking_id = booking_number
         IN  IF ~home_page
             THEN [sent |-> <<>>, raised |-> "UnboundLocalError"]
             ELSE LET rest == output_loop(all_bookings, i + 1, TRUE)
                  IN  [sent |-> <<[book_id |-> booking_number,
                                   home_page |-> TRUE]>> \o rest.sent,
                       raised |-> rest.raised]

\* admin/router.py yes_output_bookings on the FSM data "all" holding the
\* listing of a room: the rows, the messages sent, the exception raised and
\* the FSM state the handler leaves are recorded in call
yes_output_bookings ==
    /\ call = NoCall
    /\ \E room_id \in RoomIds :
        LET all_bookings ==
              RowList(get_bookings_with_details(bookings, users, rooms, pays,
                                                room_id, today, FALSE))
            out == output_loop(all_bookings, 1, FALSE)
        IN  call' = [op |-> "yes_output_bookings", all |-> all_bookings,
                     sent |-> IF all_bookings = <<>>
                              THEN <<[book_id |-> 0, home_page |-> FALSE]>>
                              ELSE out.sent,
                     raised |-> IF all_bookings = <<>> THEN "none"
                                ELSE out.raised,
                     state |-> IF all_bookings = <<>> THEN "none"
                               ELSE IF out.raised = "none" THEN "books"
                               ELSE "dialog_start"]
    /\ UNCHANGED <<today, rooms, users, bookings, pays, next_id, wstate,
                   sessions, path>>

\* a call of one of the four listings of BookingDAO, recorded in call
ListBookings ==
    /\ call = NoCall
    /\ \E kind \in {"details", "year", "date_start", "date_end"},
          room_id \in RoomIds, dbFails \in BOOLEAN :
        LET rows ==
              CASE kind = "details" ->
                     get_bookings_with_details(bookings, users, rooms, pays,
                                               room_id, today, dbFails)
                [] kind = "year" ->
                     get_bookings_with_details_year(bookings, users, rooms, pays,
                                                    room_id, YearOf(today), dbFails)
                [] kind = "date_start" ->
                     get_bookings_with_details_date_start(bookings, users, rooms,
                                                          pays, today, dbFails)
                [] kind = "date_end" ->
                     get_bookings_with_details_date_end(bookings, users, rooms,
                                                        pays, today, dbFails)
        IN  /\ call' = [op |-> "listing", kind |-> kind, room_id |-> room_id,
                        rows |-> rows, failed |-> dbFails]
            /\ UNCHANGED <<today, rooms, users, bookings, pays, next_id, wstate,
                           sessions, path>>

\* a direct call of BookingDAO.delete_book, recorded in call with the table
\* it found
CallDeleteBook ==
    /\ call = NoCall
    /\ \E book_id \in BookIds, dbFails \in BOOLEAN :
        /\ bookings' = IF dbFails THEN bookings ELSE delete_book(bookings, book_id)
        /\ call' = [op |-> "delete_book", book_id |-> book_id,
                    before |-> bookings, failed |-> dbFails]
        /\ UNCHANGED <<today, rooms, users, pays, next_id, wstate, sessions, path>>

\* the calendar day changes
NextDay ==
    /\ today < MaxDay
    /\ today' = today + 1
    /\ UNCHANGED <<rooms, users, bookings, pays, next_id, wstate, call, sessions, path>>

Next ==
    \/ on_confirmation
    \/ disable_booking
    \/ delete_booking
    \/ NextDay

Spec == Init /\ [][Next]_vars

\* ------------------------------------------- the availability check alone
\* the values a row of the bookings table can hold
BookingValues ==
    { v \in [user_id : GuestIds, room_id : RoomIds, date_start : Dates,
             date_end : Dates, status : {"booked", "completed"}, cost : Costs] :
        v.date_start < v.date_end }

\* the check does not read ids: of the tables that differ only in which row
\* has which id, the one whose rows are in RowKey order is kept
RowKey(v) ==
    ((v.room_id * (MaxDate + 1) + v.date_start) * (MaxDate + 1) + v.date_end) * 2
        + (IF v.status = "booked" THEN 0 ELSE 1)

\* the table of the rows f[1] .. f[n], with ids 1..n
StoredBookings(n, f) ==
    { Booking(i, f[i].user_id, f[i].room_id, f[i].date_start, f[i].date_end,
              f[i].status, f[i].cost) : i \in 1..n }

\* a stored table: up to MaxBookings rows
StoredTable ==
    \E n \in 0..MaxBookings :
        \E f \in [1..n -> BookingValues] :
            /\ \A i \in 1..(n - 1) : RowKey(f[i]) <= RowKey(f[i + 1])
            /\ bookings = StoredBookings(n, f)
            /\ next_id = n + 1

InitCheck ==
    /\ today = 1
    /\ rooms = RoomIds
    /\ users = StoredUsers
    /\ StoredTable
    /\ pays = {}
    /\ wstate = "none"
    /\ call = NoCall
    /\ sessions = [s \in Sessions |-> Idle]
    /\ path = <<>>

NextCheck == CheckAvailable

SpecCheck == InitCheck /\ [][NextCheck]_vars

\* ------------------------------------------------- the date step alone
\* the dialog shows the window of BookingState.booking_date_end
InitDates ==
    /\ today = 1
    /\ rooms = RoomIds
    /\ users = StoredUsers
    /\ StoredTable
    /\ pays = {}
    /\ wstate = "booking_date_end"
    /\ call = NoCall
    /\ sessions = [s \in Sessions |-> Idle]
    /\ path = <<>>

NextDates == process_date_end_selected

SpecDates == InitDates /\ [][NextDates]_vars

\* --------------------------------------------- one run of the wizard
\* the dialog shows one of its windows, the first of the path followed
InitWizard ==
    /\ today = 1
    /\ rooms = RoomIds
    /\ users = StoredUsers
    /\ bookings = {}
    /\ pays = {}
    /\ next_id = 1
    /\ wstate \in { Windows[i] : i \in DOMAIN Windows }
    /\ call = NoCall
    /\ sessions = [s \in Sessions |-> Idle]
    /\ path = <<[state |-> wstate, by |-> "start"]>>

NextWizard ==
    \/ on_phone_input
    \/ on_name_input
    \/ on_description_user_input
    \/ on_confirmation_user_yes
    \/ on_confirmation_user_no
    \/ on_confirmation_chek_user_no
    \/ on_confirmation_check_user_yes
    \/ on_room_selected
    \/ process_date_start_selected
    \/ process_date_end_selected
    \/ on_cost_input
    \/ on_confirmation
    \/ Back
    \/ Cancel

SpecWizard == InitWizard /\ [][NextWizard]_vars

\* ------------------------ a stay in progress, the daily job and the check
\* a stored row of a stay in progress: the guest arrived before today and
\* leaves after it
InProgress(b) == b.date_start < today /\ b.date_end > today

\* a stored table of 'booked' rows with a stay in progress, on any day
InitStay ==
    /\ today \in Days
    /\ rooms = RoomIds
    /\ users = StoredUsers
    /\ StoredTable
    /\ \A b \in bookings : b.status = "booked"
    /\ \E b \in bookings : InProgress(b)
    /\ pays = {}
    /\ wstate = "none"
    /\ call = NoCall
    /\ sessions = [s \in Sessions |-> Idle]
    /\ path = <<>>

NextStay ==
    \/ disable_booking
    \/ CheckAvailable

SpecStay == InitStay /\ [][NextStay]_vars

\* ---------------- the two handlers that call the check, with query failures
\* the date step and the confirmation of one session
InitFail ==
    /\ today = 1
    /\ rooms = RoomIds
    /\ users = StoredUsers
    /\ bookings = {}
    /\ pays = {}
    /\ next_id = 1
    /\ wstate = "booking_date_end"
    /\ call = NoCall
    /\ sessions = [s \in Sessions |-> Idle]
    /\ path = <<>>

NextFail ==
    \/ process_date_end_selected
    \/ on_confirmation_check(1)
    \/ on_confirmation_add(1)

SpecFail == InitFail /\ [][NextFail]_vars

\* ------------------------------- the calendar windows as the days pass
\* the dialog shows the window of BookingState.booking_date_start on the day
\* the process started
InitCalendar ==
    /\ today = 1
    /\ rooms = RoomIds
    /\ users = StoredUsers
    /\ bookings = {}
    /\ pays = {}
    /\ next_id = 1
    /\ wstate = "booking_date_start"
    /\ call = NoCall
    /\ sessions = [s \in Sessions |-> Idle]
    /\ path = <<[state |-> wstate, by |-> "start"]>>

NextCalendar ==
    \/ process_date_start_selected
    \/ process_date_end_selected
    \/ on_room_selected
    \/ Back
    \/ NextDay

SpecCalendar == InitCalendar /\ [][NextCalendar]_vars

\* ------------------------------- confirmations of two sessions, interleaved
\* both sessions show the confirmation window; each confirms once
NextRace ==
    \E s \in Sessions :
        \/ on_confirmation_check(s)
        \/ on_confirmation_add(s)

SpecRace == Init /\ [][NextRace]_vars

\* ------------------------------------------------- the daily jobs alone
\* a stored table on one of the days
InitJobs ==
    /\ today \in Days
    /\ rooms = RoomIds
    /\ users = StoredUsers
    /\ StoredTable
    /\ pays = {}
    /\ wstate = "none"
    /\ call = NoCall
    /\ sessions = [s \in Sessions |-> Idle]
    /\ path = <<>>

NextJobs ==
    \/ RunCompletePastBookings
    \/ send_admin_msg

SpecJobs == InitJobs /\ [][NextJobs]_vars

\* ------------------------------------------------- the removal alone
NextDelete == CallDeleteBook

SpecDelete == InitCheck /\ [][NextDelete]_vars

\* ------------------------------------------- payments and the listings
\* a stored table of one-night bookings, on the second day
InitPay ==
    /\ today = 2
    /\ rooms = RoomIds
    /\ users = StoredUsers
    /\ StoredTable
    /\ \A b \in bookings : /\ b.status = "booked"
                            /\ b.date_start <= 2
                            /\ b.date_end = b.date_start + 1
    /\ pays = {}
    /\ wstate = "none"
    /\ call = NoCall
    /\ sessions = [s \in Sessions |-> Idle]
    /\ path = <<>>

NextPay ==
    \/ input_pay_booking
    \/ ListBookings

SpecPay == InitPay /\ [][NextPay]_vars

\* --------------------------------------- the output of a listing to the chat
NextOutput == yes_output_bookings

SpecOutput == InitCheck /\ [][NextOutput]_vars

\* ================================================================ claims
\* the half-open rule, stated on two stored or requested intervals
Intersects(s1, e1, s2, e2) == s1 < e2 /\ e1 > s2

CallMade == call # NoCall
CallValid == CallMade /\ call.booking_date_start < call.booking_date_end /\ ~call.failed

\* the rows of the called room that intersect the requested interval
Conflicting ==
    { b \in bookings : /\ b.room_id = call.room_id
                       /\ Intersects(b.date_start, b.date_end,
                                     call.booking_date_start, call.booking_date_end) }

\* C1: after any sequence of confirmations, completion runs and deletions no
\* two 'booked' bookings of one room have intersecting half-open intervals.
C1_NoOverlappingBooked ==
    \A a, b \in bookings :
        (a # b /\ a.room_id = b.room_id /\ a.status = "booked" /\ b.status = "booked")
            => ~Intersects(a.date_start, a.date_end, b.date_start, b.date_end)

\* two live bookings of one room, back to back, the later one just confirmed
C1_Witness ==
    /\ wstate = "confirmation"
    /\ \E a, b \in bookings :
           /\ a.room_id = b.room_id /\ a.status = "booked" /\ b.status = "booked"
           /\ a.date_end = b.date_start /\ b.id = next_id - 1

\* C2: for a request with start < end whose query completes, the check
\* returns true exactly when no stored booking of the room has
\* date_start < requested_end and date_end > requested_start.
C2_TrueIffNoRowIntersects ==
    CallValid => /\ call.ret \in {"True", "False"}
                 /\ (call.ret = "True") <=> (Conflicting = {})

\* a request strictly inside a stored booking of the room is refused
C2_Witness ==
    /\ CallValid /\ call.ret = "False"
    /\ \E b \in bookings : /\ b.room_id = call.room_id
                            /\ b.date_start < call.booking_date_start
                            /\ call.booking_date_end < b.date_end

\* C3: a request that starts on the end date of a stored booking of the room,
\* or ends on its start date, is available when no other booking of the room
\* intersects the request.
C3_BackToBackAvailable ==
    \A b \in bookings :
        ( /\ CallValid
          /\ b.room_id = call.room_id
          /\ \/ b.date_end = call.booking_date_start
             \/ b.date_start = call.booking_date_end
          /\ \A o \in bookings \ {b} :
                o.room_id = call.room_id =>
                    ~Intersects(o.date_start, o.date_end,
                                call.booking_date_start, call.booking_date_end) )
        => call.ret = "True"

C3_Witness ==
    /\ CallValid /\ call.ret = "True"
    /\ \E a, b \in bookings : /\ a.room_id = call.room_id /\ b.room_id = call.room_id
                               /\ a.date_end = call.booking_date_start
                               /\ b.date_start = call.booking_date_end

\* C4: a stored booking whose status is not 'booked' never makes the check
\* return false: when no 'booked' booking of the room intersects the request,
\* the check does not answer false.
C4_OnlyBookedBlocks ==
    (CallValid /\ \A b \in Conflicting : b.status # "booked") => call.ret # "False"

\* C5: a request with start >= end yields the error outcome None, which is
\* not the answer False, without a query being executed, whatever is stored.
C5_InvalidRangeRejected ==
    (CallMade /\ call.booking_date_start >= call.booking_date_end)
        => /\ call.ret = "None"
           /\ call.ret # "False"
           /\ ~call.queried

\* an empty request inside a stored booking of the room
C5_Witness ==
    /\ CallMade /\ call.ret = "None" /\ ~call.queried
    /\ \E b \in bookings : /\ b.room_id = call.room_id
                            /\ b.date_start < call.booking_date_start
                            /\ call.booking_date_start = call.booking_date_end
                            /\ call.booking_date_end < b.date_end

\* C6: a booking on another room does not change the result for the called
\* room: the check gives the same result with that booking removed.
C6_RoomScoped ==
    CallMade =>
        \A b \in bookings :
            b.room_id # call.room_id =>
                check_available_bookings(bookings \ {b}, call.room_id,
                                         call.booking_date_start,
                                         call.booking_date_end, call.failed).ret
                    = call.ret

\* the same interval is stored on another room and the request is available
C6_Witness ==
    /\ CallValid /\ call.ret = "True"
    /\ \E b \in bookings : /\ b.room_id # call.room_id
                            /\ b.date_start = call.booking_date_start
                            /\ b.date_end = call.booking_date_end
                            /\ b.status = "booked"

\* C7: a call with a room_id that references no Room is rejected, it never
\* gives the answer 'available'.
C7_UnknownRoomRejected ==
    (CallMade /\ call.room_id \notin rooms) => call.ret # "True"

\* C8: a call of the check leaves Rooms, Guests, Bookings and Payments as
\* they were, for every input.
C8_PureRead ==
    [][call' # call => UNCHANGED <<rooms, users, bookings, pays>>]_vars

\* a call whose query found a conflicting booking
C8_Witness ==
    /\ CallValid /\ call.queried /\ call.ret = "False" /\ Cardinality(bookings) >= 2

\* C9: every stored booking has date_start < date_end.
C9_StartBeforeEnd ==
    \A b \in bookings : b.date_start < b.date_end

\* a booking just inserted by on_confirmation
C9_Witness ==
    /\ wstate = "confirmation"
    /\ \E b \in bookings : b.id = next_id - 1 /\ b.status = "booked"

\* C10: the test is symmetric: the request checked against a stored booking
\* of the room gives the answer that booking's interval gets when it is the
\* request and the requested interval is the stored one.
C10_Symmetric ==
    CallValid =>
        \A a \in bookings :
            a.room_id = call.room_id =>
                check_available_bookings({a}, call.room_id,
                                         call.booking_date_start,
                                         call.booking_date_end, FALSE).ret
                  = check_available_bookings(
                        {[a EXCEPT !.date_start = call.booking_date_start,
                                   !.date_end = call.booking_date_end]},
                        call.room_id, a.date_start, a.date_end, FALSE).ret

\* a stored booking that ends inside the request, and one that touches it
C10_Witness ==
    /\ CallValid
    /\ \E a, b \in bookings :
           /\ a.room_id = call.room_id /\ b.room_id = call.room_id
           /\ a.date_start < call.booking_date_start
           /\ call.booking_date_start < a.date_end
           /\ a.date_end < call.booking_date_end
           /\ b.date_end = call.booking_date_start

\* C11: a booking appears with status 'booked'; the only change of a stored
\* booking's status is 'booked' to 'completed', so a 'completed' booking is
\* never 'booked' again; a row that appears is a new booking, with the id
\* BaseDAO.add gives it, not a removed one; every status is one of booked,
\* completed, canceled.
C11_StatusMachine ==
    [][ bookings' # bookings =>
        /\ \A b \in bookings' : b.status \in {"booked", "completed", "canceled"}
        /\ \A b \in bookings' :
              (\A a \in bookings : a.id # b.id)
                  => /\ b.status = "booked"
                     /\ b.id = next_id /\ next_id' = next_id + 1
        /\ \A a \in bookings : a.id < next_id
        /\ \A a \in bookings, b \in bookings' :
              a.id = b.id => \/ b.status = a.status
                             \/ a.status = "booked" /\ b.status = "completed"
      ]_vars

\* of two bookings created, one was completed by the daily run and the other
\* removed by the admin
C11_Witness ==
    /\ next_id = 3 /\ Cardinality(bookings) = 1
    /\ \E b \in bookings : b.status = "completed"

\* a run of the completion job whose UPDATE was executed
CompletionRan ==
    CallMade /\ call.op = "complete_past_bookings" /\ ~call.failed

MessagesSent ==
    CallMade /\ call.op = "send_admin_msg" /\ ~call.failed

\* the number of messages of one kind about one booking sent to one admin
Count(admin_id, action, book_id) ==
    Cardinality({ i \in DOMAIN call.sent :
                    /\ call.sent[i].admin_id = admin_id
                    /\ call.sent[i].action = action
                    /\ call.sent[i].book_id = book_id })

C13_OverlapOnlyByInterleaving ==
    [][ (C1_NoOverlappingBooked /\ ~C1_NoOverlappingBooked') =>
          \E s \in Sessions :
              /\ sessions[s].pos = "awaiting" /\ sessions'[s].pos = "NameError"
              /\ sessions[s].check = "True"
              /\ \E b \in bookings :
                    /\ b.id >= sessions[s].seen
                    /\ b.room_id = sessions[s].dd.selected_room
                    /\ b.status = "booked"
                    /\ Intersects(b.date_start, b.date_end,
                                  sessions[s].dd.booking_date_start,
                                  sessions[s].dd.booking_date_end)
      ]_vars

\* both sessions inserted, and the two bookings overlap on one room
C13_Witness ==
    /\ \A s \in Sessions : sessions[s].pos = "NameError" /\ sessions[s].seen = 1
    /\ \E a, b \in bookings :
           /\ a # b /\ a.room_id = b.room_id
           /\ a.status = "booked" /\ b.status = "booked"
           /\ Intersects(a.date_start, a.date_end, b.date_start, b.date_end)

\* C14: on_confirmation inserts a booking only when the check it made itself
\* returned true, and then only the booking of its dialog_data; when the check
\* did not return true nothing is inserted and the session, its dialog not
\* finished, is in BookingState.room.
C14_InsertOnlyAfterTrueCheck ==
    [][ /\ \A s \in Sessions :
              (sessions[s].pos = "awaiting" /\ sessions'[s] # sessions[s]) =>
                  IF sessions[s].check = "True"
                  THEN /\ bookings' \in
                            { bookings,
                              bookings \cup
                                { Booking(next_id, sessions[s].dd.user,
                                          sessions[s].dd.selected_room,
                                          sessions[s].dd.booking_date_start,
                                          sessions[s].dd.booking_date_end,
                                          "booked", sessions[s].dd.cost) } }
                       /\ sessions'[s].pos # "room"
                  ELSE /\ bookings' = bookings
                       /\ sessions'[s].pos = "room"
        /\ bookings' # bookings =>
              \E s \in Sessions : /\ sessions[s].pos = "awaiting"
                                   /\ sessions'[s] # sessions[s]
                                   /\ sessions[s].check = "True"
      ]_vars

\* a session was refused because the other one booked the room before its
\* confirmation
C14_Witness ==
    \E s, t \in Sessions :
        /\ sessions[t].pos = "NameError"
        /\ sessions[s].pos = "room" /\ sessions[s].check = "False"
        /\ sessions[s].seen = 2
        /\ \E b \in bookings :
              /\ Cardinality(bookings) = 1
              /\ b.room_id = sessions[s].dd.selected_room
              /\ b.date_start = sessions[t].dd.booking_date_start
              /\ Intersects(b.date_start, b.date_end,
                            sessions[s].dd.booking_date_start,
                            sessions[s].dd.booking_date_end)

RECURSIVE PaidUpTo(_, _)
PaidUpTo(n, book_id) ==
    IF n = 0 THEN 0
    ELSE PaidUpTo(n - 1, book_id)
         + (LET p == CHOOSE q \in pays : q.id = n
            IN  IF p.id_booking = book_id THEN p.summ ELSE 0)

\* C15: every row of a listing is a stored booking with, as its total, the sum
\* of summ over the payments entered for that booking, all of them, and 0 when
\* there is none.
C15_TotalIsSumOfPayments ==
    (CallMade /\ call.op = "listing" /\ ~call.failed) =>
        \A row \in call.rows :
            /\ row[1] \in bookings
            /\ row[2] = PaidUpTo(Cardinality(pays), row[1].id)
            /\ (\A p \in pays : p.id_booking # row[1].id) => row[2] = 0

\* a booking with two equal payments, listed with a booking without payment
C15_Witness ==
    /\ CallMade /\ call.op = "listing" /\ ~call.failed
    /\ \E r, q \in call.rows :
           /\ r[2] = 200 /\ q[2] = 0
           /\ Cardinality({ p \in pays : p.id_booking = r[1].id }) = 2

\* a call of delete_book whose DELETE was executed
Deleted ==
    CallMade /\ call.op = "delete_book" /\ ~call.failed

\* C18: after delete_book(id) no booking has that id, every other booking is
\* stored as it was, and every interval on the room of the deleted booking
\* that intersected it and no other booking of the room is available.
C18_DeleteBook ==
    Deleted =>
        /\ \A b \in bookings : b.id # call.book_id
        /\ bookings \subseteq call.before
        /\ \A a \in call.before : a.id # call.book_id => a \in bookings
        /\ \A d \in call.before :
              d.id = call.book_id =>
                \A s \in Dates, e \in Dates :
                    ( /\ s < e
                      /\ Intersects(d.date_start, d.date_end, s, e)
                      /\ \A o \in call.before \ {d} :
                            o.room_id = d.room_id =>
                                ~Intersects(o.date_start, o.date_end, s, e) )
                    => check_available_bookings(bookings, d.room_id, s, e,
                                                FALSE).ret = "True"

\* one of two bookings of a room was removed, the other one is stored
C18_Witness ==
    /\ Deleted
    /\ Cardinality(bookings) = 1 /\ Cardinality(call.before) = 2
    /\ \E d \in call.before, o \in bookings :
           /\ d.id = call.book_id /\ d.status = "booked"
           /\ o.room_id = d.room_id /\ o.date_start = d.date_end

\* C21: process_date_end_selected advances to the cost step only when
\* check_available_bookings returned true for the selected room, the stored
\* start date and the selected end date, which is when the range is valid,
\* the query did not fail and no row of the room intersects it; in every
\* other case it switches back to booking_date_start; it creates no booking.
C21_DateStepGuards ==
    [][wstate = "booking_date_end" =>
          /\ bookings' = bookings
          /\ next_id' = next_id
          /\ wstate' \in {"cost", "booking_date_start"}
          /\ wstate' = "cost" <=>
                /\ call'.ret = "True"
                /\ call'.booking_date_start < call'.booking_date_end
                /\ ~call'.failed
                /\ ~\E b \in bookings :
                       /\ b.room_id = call'.room_id
                       /\ Intersects(b.date_start, b.date_end,
                                     call'.booking_date_start,
                                     call'.booking_date_end)]_vars

\* the date step refused a valid range because a stored row conflicts
C21_Witness ==
    /\ CallValid /\ Conflicting # {}
    /\ wstate = "booking_date_start"

\* C22: on_phone_input accepts a text exactly when the cleaned text is 11
\* digits starting with '8': any other text leaves the wizard in phone_nom
\* with dialog_data unchanged, an accepted one stores the number and leads
\* to check_nom when a guest has that number and to name otherwise.
C22_PhoneStep ==
    [][(/\ wstate = "phone_nom"
        /\ call' # call /\ call' # NoCall
        /\ call'.op = "on_phone_input") =>
          LET cleaned == cleaned_phone(call'.text)
          IN  IF WellFormedPhone(cleaned)
              THEN /\ call'.phone_nom_set
                   /\ wstate' = IF \E u \in users : u.phone_nom = cleaned
                                 THEN "check_nom" ELSE "name"
              ELSE /\ ~call'.phone_nom_set
                   /\ wstate' = "phone_nom"]_vars

\* the characters of a text that are not whitespace at its ends are digits,
\* and there is at least one
TrimmedIsDigits(text) ==
    \E i, j \in 1..Len(text) :
        /\ i <= j
        /\ \A k \in 1..Len(text) :
              IF k < i \/ k > j THEN text[k] \in {" ", "\t", "\n"}
              ELSE text[k] \in {"0", "1", "2", "3", "4", "5", "6", "7", "8", "9"}

\* C23: on_cost_input stores a cost and advances only when the trimmed text
\* consists solely of digits; for any other text the wizard stays in cost and
\* dialog_data['cost'] is unchanged; the cost stored is a non-negative
\* integer, one of the costs on_confirmation can read, and every booking has
\* a non-negative integer cost.
C23_CostStep ==
    [][(/\ wstate = "cost"
        /\ call' # call /\ call' # NoCall
        /\ call'.op = "on_cost_input") =>
          /\ IF TrimmedIsDigits(call'.text)
             THEN /\ call'.cost_set /\ call'.cost \in Nat /\ call'.cost \in Costs
                  /\ wstate' = "confirmation"
             ELSE /\ ~call'.cost_set
                  /\ wstate' = "cost"
          /\ \A b \in bookings' : b.cost \in Nat]_vars

\* a cost typed with spaces around it was stored and the wizard advanced
C23_Witness ==
    /\ CallMade /\ call.op = "on_cost_input"
    /\ call.cost_set /\ call.text[1] = " "
    /\ wstate = "confirmation"

\* C24: the date pressed on the start-date calendar is never earlier than
\* the day on which it is pressed, however many days the process has run.
C24_NoDateBeforeToday ==
    [][(/\ wstate = "booking_date_start"
        /\ call' # call /\ call' # NoCall
        /\ call'.op = "process_date_start_selected") =>
          call'.selected_date >= today]_vars

\* C25: for a booking with date_start before today and date_end after
\* today, check_available_bookings returns False for every candidate
\* interval on its room that intersects it, whether the daily
\* complete_past_bookings run has marked it 'completed' or not.
C25_StayInProgressBlocks ==
    CallValid =>
        \A b \in bookings :
            (/\ InProgress(b)
             /\ b.room_id = call.room_id
             /\ Intersects(b.date_start, b.date_end,
                           call.booking_date_start, call.booking_date_end))
                => call.ret = "False"

\* the check refused an interval whose only conflicting row is a stay in
\* progress that the daily run has completed
C25_Witness ==
    /\ CallValid /\ call.ret = "False"
    /\ \E b \in bookings : /\ Conflicting = {b}
                            /\ InProgress(b)
                            /\ b.status = "completed"

\* C26: in every state the wizard enters, each dialog_data key read by the
\* getter of the window shown, or by a handler of that window, was set
\* earlier in the run, so it is one of the keys the wizard writes.
C26_KeysReadWereWritten ==
    (Len(path) > 1 /\ wstate = path[Len(path)].state) =>
        (GetterReads(wstate) \cup HandlerReads(wstate)) \subseteq WritableKeys

\* the check of session s was made on a valid range and returned None: its
\* query raised a storage error
QueryFailed(s) ==
    /\ sessions[s].check = "None"
    /\ sessions[s].dd.booking_date_start < sessions[s].dd.booking_date_end

\* C27: when the availability query raises a storage error the check yields
\* a falsy value: process_date_end_selected does not advance (it switches
\* back to booking_date_start) and on_confirmation inserts no booking (its
\* session ends in BookingState.room).
C27_FailsClosed ==
    [][ /\ (wstate = "booking_date_end" /\ call' # call /\ call'.failed) =>
              /\ ~Truthy(call'.ret)
              /\ wstate' = "booking_date_start"
              /\ bookings' = bookings
        /\ \A s \in Sessions :
              (/\ sessions[s].pos = "awaiting" /\ sessions'[s] # sessions[s]
               /\ QueryFailed(s)) =>
                  /\ bookings' = bookings
                  /\ sessions'[s].pos = "room"
      ]_vars

\* the query failed in the date step, which went back to the start date, and
\* in a confirmation on a free room, which inserted nothing
C27_Witness ==
    /\ CallMade /\ call.failed /\ wstate = "booking_date_start"
    /\ bookings = {}
    /\ \E s \in Sessions : QueryFailed(s) /\ sessions[s].pos = "room"

\* C28: for a non-empty list of n bookings yes_output_bookings sends exactly n
\* messages, one per booking in list order, with the 'home' button only on
\* the message of the last booking, and sets the FSM state to books.
C28_OneMessagePerBooking ==
    (CallMade /\ call.op = "yes_output_bookings" /\ Len(call.all) >= 1) =>
        /\ Len(call.sent) = Len(call.all)
        /\ \A i \in 1..Len(call.all) :
              /\ call.sent[i].book_id = call.all[i][1].id
              /\ call.sent[i].home_page <=> i = Len(call.all)
        /\ call.state = "books"

C30_PaymentOnlyPositive ==
    [][\A p \in pays' \ pays : p.summ > 0 /\ p.id_booking \in BookIds]_vars

\* C16: within one run of the wizard no window is entered twice.
C16_NoStateEnteredTwice ==
    \A i, j \in DOMAIN path : i # j => path[i].state # path[j].state

\* the transitions that lead back to a window of the run
ReEntries ==
    {"Back", "on_confirmation_user_no", "on_confirmation_chek_user_no",
     "process_date_end_selected refused", "on_confirmation refused"}

\* C16 as amended: a window is entered again only through a Back button or
\* through on_confirmation_user_no, on_confirmation_chek_user_no, the refusal
\* of process_date_end_selected or the refusal of on_confirmation; every
\* other transition leads to a later window of the dialog, so a run that
\* takes none of those enters no window twice.
C16_OnlyReEntriesGoBack ==
    /\ \A k \in 2..Len(path) :
          Index(path[k].state) <= Index(path[k - 1].state)
              => path[k].by \in ReEntries
    /\ (\A k \in 2..Len(path) : path[k].by \notin ReEntries)
          => C16_NoStateEnteredTwice

\* a run through four windows, none of them by a re-entry
C16_Witness ==
    /\ Len(path) >= 4
    /\ \A k \in 2..Len(path) : path[k].by \notin ReEntries
    /\ wstate = "confirmation"

\* C17: no two guests have the same phone number, and after the guest step
\* was completed for a phone number the guest with that number has the name
\* and the description entered.
C17_GuestKeyedByPhone ==
    /\ \A u, v \in users : u.phone_nom = v.phone_nom => u = v
    /\ (CallMade /\ call.op = "on_confirmation_user_yes") =>
          \E u \in users : /\ u.phone_nom = call.phone_nom
                            /\ u.username = call.name
                            /\ u.description = call.description_user

TypeOK ==
    /\ today \in Dates
    /\ rooms = RoomIds
    /\ \A b \in bookings : b.status \in {"booked", "completed", "canceled"}
    /\ wstate \in {"none"} \cup { Windows[i] : i \in DOMAIN Windows }
    /\ next_id \in 1..(MaxBookings + 1)
====
